---------------------------- MODULE Spec2Model ----------------------------
(***************************************************************************)
(* kernFeatureWriter.py: the kerning normaliser and classifier             *)
(* (KernProcessor) and the subtable partitioner (MakeMeasuredSubtables).   *)
(*                                                                         *)
(* A name (glyph or group) is a sequence of tokens; its Python string is   *)
(* the concatenation of the tokens.  The token set is prefix-free, so the  *)
(* lexicographic order of token sequences by TokenOrder is Python's string *)
(* order, and in every name used here a tag or prefix occurs in the string *)
(* exactly when it occurs as a token.                                      *)
(* A dict is a function whose DOMAIN is its key set; a pair is <<l, r>>.   *)
(***************************************************************************)
EXTENDS Integers, Sequences, FiniteSets, TLC

VARIABLES
    pc,               \* position in KernProcessor.__init__
    in_groups,        \* argument groups
    in_kerning,       \* argument kerning
    option_dissolve,  \* argument option_dissolve
    kp,               \* the fields of the KernProcessor object
    sanity,           \* what _sanityCheck reported
    mst,              \* the locals and fields of MakeMeasuredSubtables
    call              \* a call of one method on its own: arguments, returns

vars == <<pc, in_groups, in_kerning, option_dissolve, kp, sanity, mst, call>>

-----------------------------------------------------------------------------
(* Module-level names of the source.                                       *)

group_RTL == <<"RTL_KERNING">>
tag_ara == "_ARA"
tag_heb == "_HEB"
tag_RTL == "_RTL"
tag_exception == "EXC_"
tag_ignore == ".cxt"

\* kerning.get(pair), a value or None, is <<value>> or << >>
None == << >>
Some(value) == <<value>>

\* The tokens, in Python's string order.
TokenOrder ==
    << ".cxt", "@MMK_L_", "@MMK_R_", "A", "B", "EXC_", "O", "RTL_KERNING",
       "_ARA", "_HEB", "_RTL", "public.kern1.", "public.kern2." >>

TokenRank(t) == CHOOSE i \in 1..Len(TokenOrder) : TokenOrder[i] = t

\* a < b on strings
NameLess(a, b) ==
    LET n == IF Len(a) < Len(b) THEN Len(a) ELSE Len(b)
        diff == {i \in 1..n : a[i] # b[i]}
    IN  IF diff = {} THEN Len(a) < Len(b)
        ELSE LET i == CHOOSE j \in diff : \A k \in diff : j <= k
             IN  TokenRank(a[i]) < TokenRank(b[i])

\* p < q on tuples of two strings
PairLess(p, q) ==
    IF p[1] # q[1] THEN NameLess(p[1], q[1]) ELSE NameLess(p[2], q[2])

RECURSIVE SortedNames(_)
SortedNames(S) ==
    IF S = {} THEN << >>
    ELSE LET m == CHOOSE x \in S : \A y \in S \ {x} : NameLess(x, y)
         IN  <<m>> \o SortedNames(S \ {m})

RECURSIVE SortedPairs(_)
SortedPairs(S) ==
    IF S = {} THEN << >>
    ELSE LET m == CHOOSE x \in S : \A y \in S \ {x} : PairLess(x, y)
         IN  <<m>> \o SortedPairs(S \ {m})

\* tag in name
Contains(name, tag) == \E i \in 1..Len(name) : name[i] = tag

\* name.startswith(prefix)
StartsWith(name, prefix) == Len(name) > 0 /\ name[1] = prefix

\* name.replace(old, '') and name.replace(old, new)
Remove(name, old) == SelectSeq(name, LAMBDA t : t # old)
Replace(name, old, new) ==
    [i \in 1..Len(name) |-> IF name[i] = old THEN new ELSE name[i]]

Range(s) == {s[i] : i \in 1..Len(s)}

EmptyDict == << >>
Put(d, k, v) == [x \in DOMAIN d \cup {k} |-> IF x = k THEN v ELSE d[x]]
Restrict(d, K) == [x \in DOMAIN d \cap K |-> d[x]]
\* d.get(k, default)
Get(d, k, default) == IF k \in DOMAIN d THEN d[k] ELSE default

\* The dicts a loop "for k, v in d.items(): out[f(k)] = v" can build, f
\* given as the function img on the keys of d: where several keys of d
\* have the same image, the one iterated last wins, and the iteration order
\* of d is the insertion order of the caller's dict.
Rekeyed(d, img) ==
    LET K == {img[k] : k \in DOMAIN d}
    IN  {m \in [K -> {d[k] : k \in DOMAIN d}] :
            \A x \in K : \E k \in DOMAIN d : img[k] = x /\ m[x] = d[k]}

-----------------------------------------------------------------------------
(* KernProcessor: predicates on names.                                     *)

isGroup(itemName) ==
    \/ itemName[1] \in {"@MMK_L_", "@MMK_R_"}
    \/ itemName[1] \in {"public.kern1.", "public.kern2."}

isKerningGroup(groupName) ==
    \/ groupName[1] \in {"@MMK_L_", "@MMK_R_"}
    \/ groupName[1] \in {"public.kern1.", "public.kern2."}

isRTL(reference_groups, pair) ==
    LET RTLGlyphs == Get(reference_groups, group_RTL, << >>)
    IN  \/ {pair[1], pair[2]} \cap Range(RTLGlyphs) # {}
        \/ \E tag \in {tag_ara, tag_heb, tag_RTL} :
               Contains(pair[1], tag) \/ Contains(pair[2], tag)

isRTLGroup(groupName) ==
    \E tag \in {tag_ara, tag_heb, tag_RTL} : Contains(groupName, tag)

-----------------------------------------------------------------------------
(* KernProcessor: the normaliser.                                          *)

\* sanitize_kerning looking at the left item of a pair only
sanitize_kerning_leftOnly(groups, kerning) ==
    LET all_kerned_items == UNION {{p[1], p[2]} : p \in DOMAIN kerning}
        all_kerned_groups == {item \in all_kerned_items : isGroup(item)}
        bad_groups == all_kerned_groups \ DOMAIN groups
    IN  Restrict(kerning, {p \in DOMAIN kerning : p[1] \notin bad_groups})

sanitize_kerning(groups, kerning) ==
    LET all_kerned_items == UNION {{p[1], p[2]} : p \in DOMAIN kerning}
        all_kerned_groups == {item \in all_kerned_items : isGroup(item)}
        bad_groups == all_kerned_groups \ DOMAIN groups
    IN  Restrict(kerning,
                 {p \in DOMAIN kerning : {p[1], p[2]} \cap bad_groups = {}})

remap_group_name(group_name) ==
    IF Contains(group_name, "public.kern1.")
    THEN LET stripped_name == Remove(group_name, "public.kern1.")
         IN  IF StartsWith(stripped_name, "@MMK_L_")
             THEN stripped_name
             ELSE Replace(group_name, "public.kern1.", "@MMK_L_")
    ELSE IF Contains(group_name, "public.kern2.")
    THEN LET stripped_name == Remove(group_name, "public.kern2.")
         IN  IF StartsWith(stripped_name, "@MMK_R_")
             THEN stripped_name
             ELSE Replace(group_name, "public.kern2.", "@MMK_R_")
    ELSE group_name

remap_pair(pair) == <<remap_group_name(pair[1]), remap_group_name(pair[2])>>

\* the dicts _remap_groups can return
remap_groups(groups) ==
    Rekeyed(groups, [g \in DOMAIN groups |-> remap_group_name(g)])

\* the dicts _remap_kerning can return
remap_kerning(kerning) ==
    Rekeyed(kerning, [p \in DOMAIN kerning |-> remap_pair(p)])

get_used_groups(kerning) ==
    {item \in UNION {{p[1], p[2]} : p \in DOMAIN kerning} : isGroup(item)}

getAllGroupedGlyphs(groups, kerning, side) ==
    IF side = "left"
    THEN UNION {Range(groups[p[1]]) :
                  p \in {q \in DOMAIN kerning :
                            isGroup(q[1]) /\ q[1] \in DOMAIN groups}}
    ELSE UNION {Range(groups[p[2]]) :
                  p \in {q \in DOMAIN kerning :
                            isGroup(q[2]) /\ q[2] \in DOMAIN groups}}

\* singleGroups without the _isRTLGroup test of line 490
singleGroups_anyDirection(groups) ==
    {g \in DOMAIN groups : Len(groups[g]) = 1}

singleGroups(groups) ==
    {g \in DOMAIN groups : Len(groups[g]) = 1 /\ ~isRTLGroup(g)}

dissolveItem(groups, item) ==
    IF item \in singleGroups(groups) THEN groups[item][1] ELSE item

\* the (groups, kerning) results _dissolveSingleGroups can return
dissolveSingleGroups(groups, kerning) ==
    IF singleGroups(groups) # {}
    THEN LET dissolved ==
                 [p \in DOMAIN kerning |->
                     <<dissolveItem(groups, p[1]), dissolveItem(groups, p[2])>>]
         IN  {<<Restrict(groups, DOMAIN groups \ singleGroups(groups)), dk>> :
                 dk \in Rekeyed(kerning, dissolved)}
    ELSE {<<groups, kerning>>}

-----------------------------------------------------------------------------
(* KernProcessor._findExceptions.  k is the object, one field per         *)
(* attribute; each operator returns the object after its lines have run.  *)

\* lines 250-267: the object's dicts and lists as __init__ creates them;
\* has_grouped tells whether the attributes grouped_left and grouped_right
\* exist (lines 290-292)
NewProcessor ==
    [ glyph_glyph |-> EmptyDict, glyph_glyph_exceptions |-> EmptyDict,
      glyph_group |-> EmptyDict, glyph_group_exceptions |-> EmptyDict,
      group_glyph_exceptions |-> EmptyDict, group_group |-> EmptyDict,
      predefined_exceptions |-> EmptyDict,
      rtl_glyph_glyph |-> EmptyDict, rtl_glyph_glyph_exceptions |-> EmptyDict,
      rtl_glyph_group |-> EmptyDict, rtl_glyph_group_exceptions |-> EmptyDict,
      rtl_group_glyph_exceptions |-> EmptyDict, rtl_group_group |-> EmptyDict,
      rtl_predefined_exceptions |-> EmptyDict,
      pairs_unprocessed |-> << >>, pairs_processed |-> << >>,
      reference_groups |-> EmptyDict,
      groups |-> EmptyDict, kerning |-> EmptyDict,
      has_grouped |-> FALSE, grouped_left |-> {}, grouped_right |-> {},
      explodedPairList |-> {}, RTLexplodedPairList |-> {} ]

\* lines 537-548: one pass of the loop over the keys of self.kerning
stripTagged(k, pair) ==
    IF Contains(pair[1], tag_ignore)
    THEN [k EXCEPT !.kerning = Restrict(@, DOMAIN @ \ {pair})]
    ELSE IF Contains(pair[1], tag_exception) \/ Contains(pair[2], tag_exception)
    THEN [k EXCEPT
            !.predefined_exceptions = Put(@, pair, k.kerning[pair]),
            !.kerning = Restrict(@, DOMAIN @ \ {pair})]
    ELSE k

RECURSIVE stripLoop(_, _, _)
stripLoop(k, pairs, i) ==
    IF i > Len(pairs) THEN k
    ELSE stripLoop(stripTagged(k, pairs[i]), pairs, i + 1)

\* lines 550-563
glyph_2_glyph(k) ==
    {p \in DOMAIN k.kerning : ~isGroup(p[1]) /\ ~isGroup(p[2])}
glyph_2_group(k) ==
    {p \in DOMAIN k.kerning : ~isGroup(p[1]) /\ isGroup(p[2])}
group_2_item(k) ==
    {p \in DOMAIN k.kerning : isGroup(p[1])}

\* lines 581-590: the loop over groupList; st = [k, value], g2g the
\* glyph_2_glyph list of line 550
RECURSIVE memberLoop(_, _, _, _, _, _)
memberLoop(st, glyph, groupList, isRTLpair, g2g, i) ==
    IF i > Len(groupList) THEN st
    ELSE LET x_pair == <<glyph, groupList[i]>>
             next ==
                 IF x_pair \in g2g
                 THEN LET value == st.k.kerning[x_pair]
                      IN  [k |-> IF isRTLpair
                                 THEN [st.k EXCEPT !.rtl_glyph_glyph_exceptions =
                                           Put(@, x_pair, value)]
                                 ELSE [st.k EXCEPT !.glyph_glyph_exceptions =
                                           Put(@, x_pair, value)],
                           value |-> value]
                 ELSE st
         IN  memberLoop(next, glyph, groupList, isRTLpair, g2g, i + 1)

\* lines 592-602: the else clause of the for loop, which always runs (the
\* loop has no break)
memberLoopElse(k, pair, value, isRTLpair) ==
    IF value = 0
    THEN [k EXCEPT !.pairs_unprocessed = Append(@, pair)]
    ELSE IF isRTLpair
    THEN [k EXCEPT !.rtl_glyph_group = Put(@, pair, value),
                   !.pairs_processed = Append(@, pair)]
    ELSE [k EXCEPT !.glyph_group = Put(@, pair, value),
                   !.pairs_processed = Append(@, pair)]

\* glyphGroupStep with the zero test of line 593 made before the test of
\* line 573: a pair with the value 0 is dropped
glyphGroupStep_zeroDropped(k, pair, g2g) ==
    LET value == k.kerning[pair]
        isRTLpair == isRTL(k.reference_groups, pair)
    IN  IF value = 0
        THEN [k EXCEPT !.pairs_unprocessed = Append(@, pair)]
        ELSE IF pair[1] \in k.grouped_left
        THEN IF isRTLpair
             THEN [k EXCEPT !.rtl_glyph_group_exceptions = Put(@, pair, value),
                            !.pairs_processed = Append(@, pair)]
             ELSE [k EXCEPT !.glyph_group_exceptions = Put(@, pair, value),
                            !.pairs_processed = Append(@, pair)]
        ELSE LET st == memberLoop([k |-> k, value |-> value], pair[1],
                                  k.groups[pair[2]], isRTLpair, g2g, 1)
             IN  memberLoopElse(st.k, pair, st.value, isRTLpair)

\* lines 567-602: one pass of the loop over glyph_2_group
glyphGroupStep(k, pair, g2g) ==
    LET glyph == pair[1]
        group == pair[2]
        value == k.kerning[pair]
        groupList == k.groups[group]
        isRTLpair == isRTL(k.reference_groups, pair)
    IN  IF glyph \in k.grouped_left
        THEN IF isRTLpair
             THEN [k EXCEPT !.rtl_glyph_group_exceptions = Put(@, pair, value),
                            !.pairs_processed = Append(@, pair)]
             ELSE [k EXCEPT !.glyph_group_exceptions = Put(@, pair, value),
                            !.pairs_processed = Append(@, pair)]
        ELSE LET st == memberLoop([k |-> k, value |-> value], glyph,
                                  groupList, isRTLpair, g2g, 1)
             IN  memberLoopElse(st.k, pair, st.value, isRTLpair)

RECURSIVE glyphGroupLoop(_, _, _, _)
glyphGroupLoop(k, pairs, g2g, i) ==
    IF i > Len(pairs) THEN k
    ELSE glyphGroupLoop(glyphGroupStep(k, pairs[i], g2g), pairs, g2g, i + 1)

\* line 523-529
explode(leftGlyphList, rightGlyphList) ==
    {<<l, r>> : l \in Range(leftGlyphList), r \in Range(rightGlyphList)}

\* classPair with the slip of line 584 repeated: the value of an exact pair
\* of two members replaces the value of the class pair
classPair_staleValue(k, pair, r_group_glyphs) ==
    LET l_group_glyphs == k.groups[pair[1]]
        exact == explode(l_group_glyphs, r_group_glyphs) \cap DOMAIN k.kerning
        value == IF exact = {} THEN k.kerning[pair]
                 ELSE k.kerning[CHOOSE x \in exact : TRUE]
        isRTLpair == isRTL(k.reference_groups, pair)
    IN  IF value = 0
        THEN [k EXCEPT !.pairs_unprocessed = Append(@, pair)]
        ELSE IF isRTLpair
        THEN [k EXCEPT
                !.rtl_group_group = Put(@, pair, value),
                !.RTLexplodedPairList =
                    @ \cup explode(l_group_glyphs, r_group_glyphs),
                !.pairs_processed = Append(@, pair)]
        ELSE [k EXCEPT
                !.group_group = Put(@, pair, value),
                !.explodedPairList =
                    @ \cup explode(l_group_glyphs, r_group_glyphs),
                !.pairs_processed = Append(@, pair)]

\* lines 632-645: the pair is a class pair with right-hand glyphs r_group_glyphs
classPair(k, pair, r_group_glyphs) ==
    LET value == k.kerning[pair]
        isRTLpair == isRTL(k.reference_groups, pair)
        l_group_glyphs == k.groups[pair[1]]
    IN  IF value = 0
        THEN [k EXCEPT !.pairs_unprocessed = Append(@, pair)]
        ELSE IF isRTLpair
        THEN [k EXCEPT
                !.rtl_group_group = Put(@, pair, value),
                !.RTLexplodedPairList =
                    @ \cup explode(l_group_glyphs, r_group_glyphs),
                !.pairs_processed = Append(@, pair)]
        ELSE [k EXCEPT
                !.group_group = Put(@, pair, value),
                !.explodedPairList =
                    @ \cup explode(l_group_glyphs, r_group_glyphs),
                !.pairs_processed = Append(@, pair)]

\* lines 609-645: one pass of the loop over group_2_item
groupItemStep(k, pair) ==
    LET rightItem == pair[2]
        value == k.kerning[pair]
        isRTLpair == isRTL(k.reference_groups, pair)
    IN  IF isGroup(rightItem)
        THEN classPair(k, pair, k.groups[rightItem])
        ELSE IF rightItem \in k.grouped_right
        THEN IF isRTLpair
             THEN [k EXCEPT !.rtl_group_glyph_exceptions = Put(@, pair, value)]
             ELSE [k EXCEPT !.group_glyph_exceptions = Put(@, pair, value),
                            !.pairs_processed = Append(@, pair)]
        ELSE classPair(k, pair, <<rightItem>>)

RECURSIVE groupItemLoop(_, _, _)
groupItemLoop(k, pairs, i) ==
    IF i > Len(pairs) THEN k
    ELSE groupItemLoop(groupItemStep(k, pairs[i]), pairs, i + 1)

\* lines 650-657
explodedExceptions(k, g2g) ==
    LET exceptionPairs == k.explodedPairList \cap g2g
        RTLexceptionPairs == k.RTLexplodedPairList \cap g2g
    IN  [k EXCEPT
           !.glyph_glyph_exceptions =
               [p \in DOMAIN @ \cup exceptionPairs |->
                   IF p \in exceptionPairs THEN k.kerning[p] ELSE @[p]],
           !.rtl_glyph_glyph_exceptions =
               [p \in DOMAIN @ \cup RTLexceptionPairs |->
                   IF p \in RTLexceptionPairs THEN k.kerning[p] ELSE @[p]]]

\* glyphGlyphStep with all() for the any() of line 668
glyphGlyphStep_all(k, pair) ==
    LET value == k.kerning[pair]
        placed ==
            IF pair[1] \in k.grouped_left /\ pair[2] \in k.grouped_right
            THEN IF isRTL(k.reference_groups, pair)
                 THEN [k EXCEPT !.rtl_glyph_glyph_exceptions = Put(@, pair, value)]
                 ELSE [k EXCEPT !.glyph_glyph_exceptions = Put(@, pair, value)]
            ELSE IF /\ pair \notin DOMAIN k.glyph_glyph_exceptions
                    /\ pair \notin DOMAIN k.rtl_glyph_glyph_exceptions
            THEN IF isRTL(k.reference_groups, pair)
                 THEN [k EXCEPT !.rtl_glyph_glyph = Put(@, pair, k.kerning[pair])]
                 ELSE [k EXCEPT !.glyph_glyph = Put(@, pair, k.kerning[pair])]
            ELSE k
    IN  [placed EXCEPT !.pairs_processed = Append(@, pair)]

\* glyphGlyphStep without the membership test of lines 668-670: a pair is
\* an exception only where an earlier loop has made it one
glyphGlyphStep_noMembershipTest(k, pair) ==
    LET placed ==
            IF /\ pair \notin DOMAIN k.glyph_glyph_exceptions
               /\ pair \notin DOMAIN k.rtl_glyph_glyph_exceptions
            THEN IF isRTL(k.reference_groups, pair)
                 THEN [k EXCEPT !.rtl_glyph_glyph = Put(@, pair, k.kerning[pair])]
                 ELSE [k EXCEPT !.glyph_glyph = Put(@, pair, k.kerning[pair])]
            ELSE k
    IN  [placed EXCEPT !.pairs_processed = Append(@, pair)]

\* lines 664-689: one pass of the loop over glyph_2_glyph
glyphGlyphStep(k, pair) ==
    LET value == k.kerning[pair]
        placed ==
            IF pair[1] \in k.grouped_left \/ pair[2] \in k.grouped_right
            THEN IF isRTL(k.reference_groups, pair)
                 THEN [k EXCEPT !.rtl_glyph_glyph_exceptions = Put(@, pair, value)]
                 ELSE [k EXCEPT !.glyph_glyph_exceptions = Put(@, pair, value)]
            ELSE IF /\ pair \notin DOMAIN k.glyph_glyph_exceptions
                    /\ pair \notin DOMAIN k.rtl_glyph_glyph_exceptions
            THEN IF isRTL(k.reference_groups, pair)
                 THEN [k EXCEPT !.rtl_glyph_glyph = Put(@, pair, k.kerning[pair])]
                 ELSE [k EXCEPT !.glyph_glyph = Put(@, pair, k.kerning[pair])]
            ELSE k
    IN  [placed EXCEPT !.pairs_processed = Append(@, pair)]

RECURSIVE glyphGlyphLoop(_, _, _)
glyphGlyphLoop(k, pairs, i) ==
    IF i > Len(pairs) THEN k
    ELSE glyphGlyphLoop(glyphGlyphStep(k, pairs[i]), pairs, i + 1)

\* lines 537-657: _findExceptions up to the loop over glyph_2_glyph
findExceptionsHead(k) ==
    LET k1 == stripLoop(k, SortedPairs(DOMAIN k.kerning), 1)
        g2g == glyph_2_glyph(k1)
        k2 == glyphGroupLoop(k1, SortedPairs(glyph_2_group(k1)), g2g, 1)
        k3 == groupItemLoop(k2, SortedPairs(group_2_item(k1)), 1)
    IN  explodedExceptions(k3, g2g)

\* lines 531-689
findExceptions(k) ==
    LET k4 == findExceptionsHead(k)
    IN  glyphGlyphLoop(k4, SortedPairs(glyph_2_glyph(k4)), 1)

\* line 669 reads self.grouped_left, which __init__ sets only under
\* "if used_groups" (lines 290-292): AttributeError otherwise
findExceptionsRaises(k) ==
    /\ ~k.has_grouped
    /\ glyph_2_glyph(findExceptionsHead(k)) # {}

-----------------------------------------------------------------------------
(* The inputs of KernProcessor.                                            *)

\* the most kerning pairs of an input
MaxPairs == 3

A == <<"A">>
B == <<"B">>

\* the kerning values of an input
Values == {0, -10}

\* the names an input may give its left-side class and its right-side class
LeftGroupNames ==
    { <<"@MMK_L_", "A">>, <<"@MMK_L_", "EXC_", "A">>,
      <<"@MMK_L_", "A", ".cxt">>, <<"public.kern1.", "A">> }
RightGroupNames ==
    { <<"@MMK_R_", "B">>, <<"@MMK_R_", "B", "_ARA">> }

\* the glyph lists an input may give a group
GlyphLists == { <<A>>, <<B>>, <<A, B>> }

\* the dicts with at most MaxPairs of the given pairs as keys
KerningsOver(pairs) ==
    UNION {[D -> Values] :
             D \in {E \in SUBSET pairs : E # {} /\ Cardinality(E) <= MaxPairs}}

\* the groups dicts that define the groups of G, and RTL_KERNING or not
GroupsOver(G) ==
    {g \in UNION {[D -> GlyphLists] : D \in {G, G \cup {group_RTL}}} :
        group_RTL \in DOMAIN g => g[group_RTL] = <<A>>}

-----------------------------------------------------------------------------
(* KernProcessor.__init__                                                  *)

Init ==
    /\ pc = "new"
    /\ \E lg \in LeftGroupNames, rg \in RightGroupNames :
          /\ in_kerning \in KerningsOver({A, lg} \X {A, B, rg})
          /\ in_groups \in GroupsOver(get_used_groups(in_kerning))
    /\ option_dissolve \in BOOLEAN
    /\ kp = NewProcessor
    /\ sanity = "none"
    /\ mst = << >>
    /\ call = << >>

\* lines 269-292
Normalize ==
    /\ pc = "new"
    /\ LET reference_groups ==
               Restrict(in_groups,
                        {g \in DOMAIN in_groups : ~isKerningGroup(g)})
           sanitized_kerning == sanitize_kerning(in_groups, in_kerning)
           used_group_names == get_used_groups(sanitized_kerning)
           used_groups == [g \in used_group_names |-> in_groups[g]]
       IN  \E dz \in (IF used_group_names # {} /\ option_dissolve
                      THEN dissolveSingleGroups(used_groups, sanitized_kerning)
                      ELSE {<<used_groups, sanitized_kerning>>}) :
             \E gs \in remap_groups(dz[1]), ke \in remap_kerning(dz[2]) :
                kp' = [kp EXCEPT
                         !.reference_groups = reference_groups,
                         !.groups = gs,
                         !.kerning = ke,
                         !.has_grouped = used_group_names # {},
                         !.grouped_left =
                             IF used_group_names # {}
                             THEN getAllGroupedGlyphs(gs, ke, "left")
                             ELSE {},
                         !.grouped_right =
                             IF used_group_names # {}
                             THEN getAllGroupedGlyphs(gs, ke, "right")
                             ELSE {}]
    /\ pc' = "normalized"
    /\ UNCHANGED <<in_groups, in_kerning, option_dissolve, sanity, mst, call>>

\* line 294, _findExceptions returning
FindExceptions ==
    /\ pc = "normalized"
    /\ ~findExceptionsRaises(kp)
    /\ kp' = findExceptions(kp)
    /\ pc' = "classified"
    /\ UNCHANGED <<in_groups, in_kerning, option_dissolve, sanity, mst, call>>

\* line 294, _findExceptions raising AttributeError at line 669
FindExceptionsError ==
    /\ pc = "normalized"
    /\ findExceptionsRaises(kp)
    /\ kp' = findExceptionsHead(kp)
    /\ pc' = "error"
    /\ UNCHANGED <<in_groups, in_kerning, option_dissolve, sanity, mst, call>>

\* lines 296-299 and 507-521
SanityCheck ==
    /\ pc = "classified"
    /\ sanity' =
          IF DOMAIN kp.kerning = {} THEN "skipped"
          ELSE IF Cardinality(DOMAIN kp.kerning) #
                    Len(kp.pairs_processed) + Len(kp.pairs_unprocessed)
          THEN "mismatch"
          ELSE "ok"
    /\ pc' = "done"
    /\ UNCHANGED <<in_groups, in_kerning, option_dissolve, kp, mst, call>>

Next ==
    \/ Normalize
    \/ FindExceptions
    \/ FindExceptionsError
    \/ SanityCheck

Spec == Init /\ [][Next]_vars

-----------------------------------------------------------------------------
(* MakeMeasuredSubtables.__init__: mst holds its arguments, its locals and *)
(* self.subtables; i is the position of the loop of line 726 in leftItems. *)

\* lines 770-782
getNumberOfKernedGlyphs(kerning, groups) ==
    LET leftList == UNION {Range(Get(groups, p[1], <<p[1]>>)) : p \in DOMAIN kerning}
        rightList == UNION {Range(Get(groups, p[2], <<p[2]>>)) : p \in DOMAIN kerning}
    IN  Cardinality(leftList \cup rightList)

\* lines 696-724
NewSubtables(kernDict, kerning, groups, maxSubtableSize) ==
    [ kernDict |-> kernDict, kerning |-> kerning, groups |-> groups,
      maxSubtableSize |-> maxSubtableSize,
      coverageTableSize |-> 2 + 2 * getNumberOfKernedGlyphs(kerning, groups),
      leftItems |-> SortedNames({p[1] : p \in DOMAIN kernDict}),
      i |-> 1,
      groupedGlyphsLeft |-> {}, groupedGlyphsRight |-> {},
      usedGroupsLeft |-> {}, usedGroupsRight |-> {},
      subtable |-> << >>, measuredSubtables |-> << >>, subtables |-> << >> ]

\* lines 727-728
itemPair(kernDict, item) == {p \in DOMAIN kernDict : p[1] = item}

\* lines 730-734: the accumulators after the pairs of the item are absorbed
absorbed(m, item) ==
    LET pairs == itemPair(m.kernDict, item)
    IN  [m EXCEPT
           !.groupedGlyphsLeft =
               @ \cup UNION {Range(Get(m.groups, p[1], <<p[1]>>)) : p \in pairs},
           !.groupedGlyphsRight =
               @ \cup UNION {Range(Get(m.groups, p[2], <<p[2]>>)) : p \in pairs},
           !.usedGroupsLeft = @ \cup {p[1] : p \in pairs},
           !.usedGroupsRight = @ \cup {p[2] : p \in pairs}]

\* lines 736-741: subtableMetadataSize + subtable_size
estimate(m) ==
    LET leftClassSize == 6 + 2 * Cardinality(m.groupedGlyphsLeft)
        rightClassSize == 6 + 2 * Cardinality(m.groupedGlyphsRight)
        subtableMetadataSize ==
            m.coverageTableSize + leftClassSize + rightClassSize
        subtable_size ==
            16 + Cardinality(m.usedGroupsLeft) * Cardinality(m.usedGroupsRight) * 2
    IN  subtableMetadataSize + subtable_size

\* measureItem with line 750 left out: the item that opens a subtable is lost
measureItem_itemLost(m) ==
    LET item == m.leftItems[m.i]
        a == absorbed(m, item)
    IN  IF estimate(a) < m.maxSubtableSize
        THEN [a EXCEPT !.subtable = Append(@, item), !.i = @ + 1]
        ELSE [a EXCEPT
                !.measuredSubtables = Append(@, m.subtable),
                !.subtable = << >>,
                !.groupedGlyphsLeft = {}, !.groupedGlyphsRight = {},
                !.usedGroupsLeft = {}, !.usedGroupsRight = {},
                !.i = @ + 1]

\* lines 726-754: one pass of the loop over leftItems
measureItem(m) ==
    LET item == m.leftItems[m.i]
        a == absorbed(m, item)
    IN  IF estimate(a) < m.maxSubtableSize
        THEN [a EXCEPT !.subtable = Append(@, item), !.i = @ + 1]
        ELSE [a EXCEPT
                !.measuredSubtables = Append(@, m.subtable),
                !.subtable = <<item>>,
                !.groupedGlyphsLeft = {}, !.groupedGlyphsRight = {},
                !.usedGroupsLeft = {}, !.usedGroupsRight = {},
                !.i = @ + 1]

\* lines 756-758
lastSubtable(m) ==
    IF Len(m.subtable) # 0
    THEN [m EXCEPT !.measuredSubtables = Append(@, m.subtable)]
    ELSE m

\* lines 761-767: the stDict of one leftItemList
stDict(m, leftItemList) ==
    LET pairs == UNION {itemPair(m.kernDict, leftItem) :
                          leftItem \in Range(leftItemList)}
    IN  [p \in pairs |-> IF p \in DOMAIN m.kerning
                          THEN Some(m.kerning[p]) ELSE None]

\* lines 760-768
buildSubtables(m) ==
    [m EXCEPT !.subtables =
        [n \in 1..Len(m.measuredSubtables) |-> stDict(m, m.measuredSubtables[n])]]

\* the most pairs of a bucket given to the partitioner
MaxBucketPairs == 3

\* the values of maxSubtableSize given to the partitioner
SubtableSizes == {38, 40, 42, 44, 46, 48, 50}

GL == <<"@MMK_L_", "A">>
GR == <<"@MMK_R_", "B">>

\* the buckets given to the partitioner: every pair has the value -10
BucketsOver(pairs) ==
    UNION {[D -> {-10}] :
             D \in {E \in SUBSET pairs : Cardinality(E) <= MaxBucketPairs}}

\* the kerning dicts given with a bucket: a pair of the bucket has its
\* value of the bucket, another value, or is no key
KerningsFor(kernDict) ==
    UNION {[D -> {-10, -40}] : D \in SUBSET DOMAIN kernDict}

InitPart ==
    /\ in_groups = EmptyDict
    /\ in_kerning = EmptyDict
    /\ option_dissolve = FALSE
    /\ kp = NewProcessor
    /\ sanity = "none"
    /\ call = << >>
    /\ pc = "measure"
    /\ \E kernDict \in BucketsOver({A, B, GL} \X {A, GR}) :
       \E kerning \in KerningsFor(kernDict) :
       \E groups \in [{GL, GR} -> {<<A>>, <<A, B>>}] :
       \E maxSubtableSize \in SubtableSizes :
          mst = NewSubtables(kernDict, kerning, groups, maxSubtableSize)

\* lines 726-754, one left item
MeasureItem ==
    /\ pc = "measure"
    /\ mst.i <= Len(mst.leftItems)
    /\ mst' = measureItem(mst)
    /\ UNCHANGED <<pc, in_groups, in_kerning, option_dissolve, kp, sanity, call>>

\* lines 756-758
LastSubtable ==
    /\ pc = "measure"
    /\ mst.i > Len(mst.leftItems)
    /\ mst' = lastSubtable(mst)
    /\ pc' = "build"
    /\ UNCHANGED <<in_groups, in_kerning, option_dissolve, kp, sanity, call>>

\* lines 760-768
BuildSubtables ==
    /\ pc = "build"
    /\ mst' = buildSubtables(mst)
    /\ pc' = "emitted"
    /\ UNCHANGED <<in_groups, in_kerning, option_dissolve, kp, sanity, call>>

NextPart ==
    \/ MeasureItem
    \/ LastSubtable
    \/ BuildSubtables

SpecPart == InitPart /\ [][NextPart]_vars

-----------------------------------------------------------------------------
(* KernProcessor._remap_group_name on its own: call holds the argument of *)
(* the first call and what each call returned; every further call gets    *)
(* what the one before returned.                                          *)

\* the most tokens of a group name
MaxNameLen == 3

\* the two storage prefixes, the two display prefixes and a base name
NameTokens == {"public.kern1.", "public.kern2.", "@MMK_L_", "@MMK_R_", "A"}

GroupNamesUpTo(n) == UNION {[1..m -> NameTokens] : m \in 1..n}

InitRemap ==
    /\ pc = "remap"
    /\ in_groups = EmptyDict
    /\ in_kerning = EmptyDict
    /\ option_dissolve = FALSE
    /\ kp = NewProcessor
    /\ sanity = "none"
    /\ mst = << >>
    /\ \E group_name \in GroupNamesUpTo(MaxNameLen) :
          call = [group_name |-> group_name, returned |-> << >>]

\* lines 333-354, called on the name or on what the last call returned
RemapGroupName ==
    /\ pc = "remap"
    /\ Len(call.returned) < 2
    /\ call' = [call EXCEPT !.returned =
                   Append(@, remap_group_name(
                                 IF @ = << >> THEN call.group_name
                                 ELSE @[Len(@)]))]
    /\ UNCHANGED <<pc, in_groups, in_kerning, option_dissolve, kp, sanity, mst>>

NextRemap ==
    \/ RemapGroupName

SpecRemap == InitRemap /\ [][NextRemap]_vars

-----------------------------------------------------------------------------
(* KernProcessor.sanitize_kerning on its own: call holds the two arguments *)
(* and what the call returned.  Item names are non-empty strings.          *)

\* the groups arguments: any of the group names, or none, as keys
SanitizeGroups ==
    UNION {[D -> {<<A>>}] :
             D \in SUBSET {GL, GR, <<"public.kern1.", "A">>, group_RTL}}

InitSanitize ==
    /\ pc = "sanitize"
    /\ in_groups = EmptyDict
    /\ in_kerning = EmptyDict
    /\ option_dissolve = FALSE
    /\ kp = NewProcessor
    /\ sanity = "none"
    /\ mst = << >>
    /\ \E groups \in SanitizeGroups :
       \E kerning \in KerningsOver({A, GL, <<"public.kern1.", "A">>}
                                      \X {A, B, GR}) :
          call = [groups |-> groups, kerning |-> kerning, returned |-> None]

\* lines 301-331
SanitizeKerning ==
    /\ pc = "sanitize"
    /\ call.returned = None
    /\ call' = [call EXCEPT !.returned =
                   Some(sanitize_kerning(call.groups, call.kerning))]
    /\ UNCHANGED <<pc, in_groups, in_kerning, option_dissolve, kp, sanity, mst>>

NextSanitize ==
    \/ SanitizeKerning

SpecSanitize == InitSanitize /\ [][NextSanitize]_vars

-----------------------------------------------------------------------------
(* Properties of the classifier.                                           *)

LTRBuckets ==
    { "glyph_glyph", "glyph_glyph_exceptions", "glyph_group",
      "glyph_group_exceptions", "group_glyph_exceptions", "group_group",
      "predefined_exceptions" }
RTLBuckets ==
    { "rtl_glyph_glyph", "rtl_glyph_glyph_exceptions", "rtl_glyph_group",
      "rtl_glyph_group_exceptions", "rtl_group_glyph_exceptions",
      "rtl_group_group", "rtl_predefined_exceptions" }
Buckets == LTRBuckets \cup RTLBuckets

\* _findExceptions has returned
Classified == pc \in {"classified", "done"}

\* the pair is a key of the bucket or of its RTL sibling
InCategory(pair, ltr, rtl) == pair \in DOMAIN kp[ltr] \cup DOMAIN kp[rtl]

\* the pair is in the bucket or its RTL sibling, wherever it is a key with
\* the value the kerning dict has for it
InCategoryWithOwnValue(pair, ltr, rtl) ==
    /\ InCategory(pair, ltr, rtl)
    /\ \A b \in {ltr, rtl} :
          pair \in DOMAIN kp[b] => kp[b][pair] = kp.kerning[pair]

InNoBucket(pair) == \A b \in Buckets : pair \notin DOMAIN kp[b]

RECURSIVE SumSizes(_)
SumSizes(bs) ==
    IF bs = {} THEN 0
    ELSE LET b == CHOOSE x \in bs : TRUE
         IN  Cardinality(DOMAIN kp[b]) + SumSizes(bs \ {b})

\* C1: after classification no kerning pair is a key of more than one of
\* the 14 category buckets.
C1_BucketsDisjoint ==
    Classified =>
        \A b1, b2 \in Buckets :
            b1 # b2 => DOMAIN kp[b1] \cap DOMAIN kp[b2] = {}

\* C2: after classification the number of pairs of KernProcessor.kerning
\* equals the sum of the sizes of the 14 buckets plus the number of pairs
\* recorded as unprocessed.
C2_Conservation ==
    Classified =>
        Cardinality(DOMAIN kp.kerning) =
            SumSizes(Buckets) + Len(kp.pairs_unprocessed)

\* C6: for every group-group pair (L, R) of the classified kerning with a
\* nonzero value and every glyph-glyph pair (l, r) of it with l in L and r
\* in R, (l, r) is in the glyph-glyph-exceptions bucket (the LTR one or its
\* RTL sibling) with its own value and in no plain glyph-glyph bucket, and
\* (L, R) is in the group-group bucket (LTR or RTL sibling) with its own
\* value.
C6_ExactPairOverridesClassPair ==
    Classified =>
        \A p \in DOMAIN kp.kerning :
            (isGroup(p[1]) /\ isGroup(p[2]) /\ kp.kerning[p] # 0) =>
                /\ InCategoryWithOwnValue(p, "group_group", "rtl_group_group")
                /\ \A l \in Range(kp.groups[p[1]]), r \in Range(kp.groups[p[2]]) :
                      <<l, r>> \in DOMAIN kp.kerning =>
                          /\ InCategoryWithOwnValue(<<l, r>>,
                                 "glyph_glyph_exceptions",
                                 "rtl_glyph_glyph_exceptions")
                          /\ ~InCategory(<<l, r>>, "glyph_glyph",
                                         "rtl_glyph_glyph")

\* C6 witness: a classified input with a nonzero group-group pair and an
\* exact pair of two of its members that has another value.
C6_Witness ==
    /\ Classified
    /\ \E p \in DOMAIN kp.kerning :
          /\ isGroup(p[1]) /\ isGroup(p[2]) /\ kp.kerning[p] # 0
          /\ \E l \in Range(kp.groups[p[1]]), r \in Range(kp.groups[p[2]]) :
                /\ <<l, r>> \in DOMAIN kp.kerning
                /\ kp.kerning[<<l, r>>] # kp.kerning[p]

\* C7: no pair of a plain glyph-glyph bucket (LTR or RTL) has a left glyph
\* in grouped_left or a right glyph in grouped_right, and every glyph-glyph
\* pair of the classified kerning with such a glyph is in a
\* glyph-glyph-exceptions bucket.
C7_GroupedGlyphsNeverPlain ==
    (Classified /\ kp.has_grouped) =>
        /\ \A p \in DOMAIN kp.glyph_glyph \cup DOMAIN kp.rtl_glyph_glyph :
              p[1] \notin kp.grouped_left /\ p[2] \notin kp.grouped_right
        /\ \A p \in glyph_2_glyph(kp) :
              (p[1] \in kp.grouped_left \/ p[2] \in kp.grouped_right) =>
                  InCategory(p, "glyph_glyph_exceptions",
                             "rtl_glyph_glyph_exceptions")

\* C7 witness: a classified input with a plain pair beside a pair whose
\* right glyph alone is grouped.
C7_Witness ==
    /\ Classified /\ kp.has_grouped
    /\ DOMAIN kp.glyph_glyph \cup DOMAIN kp.rtl_glyph_glyph # {}
    /\ \E p \in glyph_2_glyph(kp) :
          p[1] \notin kp.grouped_left /\ p[2] \in kp.grouped_right

\* the class-level pairs of C8
IsClassLevel(p) ==
    \/ ~isGroup(p[1]) /\ isGroup(p[2]) /\ p[1] \notin kp.grouped_left
    \/ isGroup(p[1]) /\ isGroup(p[2])
    \/ isGroup(p[1]) /\ ~isGroup(p[2]) /\ p[2] \notin kp.grouped_right

\* C8: a class-level pair is recorded as unprocessed and kept out of all
\* buckets if and only if its own value is 0; otherwise it is in its class
\* bucket (glyph-group or group-group, LTR or RTL).
C8_ZeroClassPairsDropped ==
    Classified =>
        \A p \in DOMAIN kp.kerning :
            IsClassLevel(p) =>
                /\ (p \in Range(kp.pairs_unprocessed) /\ InNoBucket(p))
                      <=> kp.kerning[p] = 0
                /\ kp.kerning[p] # 0 =>
                      IF isGroup(p[1])
                      THEN InCategory(p, "group_group", "rtl_group_group")
                      ELSE InCategory(p, "glyph_group", "rtl_glyph_group")

\* C9: a pair with value 0 between a glyph and a used group is in no
\* glyph-group bucket and is recorded in the unprocessed list.
C9_ZeroGlyphGroupPairUnprocessed ==
    Classified =>
        \A p \in glyph_2_group(kp) :
            kp.kerning[p] = 0 =>
                /\ ~InCategory(p, "glyph_group", "rtl_glyph_group")
                /\ p \in Range(kp.pairs_unprocessed)

\* C10: every pair placed in a bucket that passes the RTL test (an item in
\* the RTL_KERNING reference group, or an RTL marker in an item's name) is
\* placed in an RTL bucket.
C10_RTLPairsInRTLBuckets ==
    Classified =>
        \A b \in Buckets : \A p \in DOMAIN kp[b] :
            isRTL(kp.reference_groups, p) =>
                \E r \in RTLBuckets : p \in DOMAIN kp[r]

\* C11: a pair neither of whose items is in the RTL_KERNING reference group
\* or has an RTL marker in its name is a key of none of the seven RTL
\* buckets.
C11_NonRTLPairsNeverInRTLBuckets ==
    Classified =>
        \A r \in RTLBuckets : \A p \in DOMAIN kp[r] :
            isRTL(kp.reference_groups, p)

\* lines 269-292 have run
Normalized == pc \in {"normalized", "classified", "error", "done"}

\* the groups of the input that the sanitized kerning references
UsedInputGroups == get_used_groups(sanitize_kerning(in_groups, in_kerning))

\* the used groups of the input with one member and no RTL tag, and those
\* with one member and an RTL tag
DissolvableGroups ==
    {g \in UsedInputGroups : Len(in_groups[g]) = 1 /\ ~isRTLGroup(g)}
KeptSingleGroups ==
    {g \in UsedInputGroups : Len(in_groups[g]) = 1 /\ isRTLGroup(g)}

\* C12: with the dissolve option on, after normalization no group of the
\* group mapping has exactly one member and no RTL tag, every group a
\* kerning pair references is in the group mapping (so is no such group),
\* and every used single-member group with an RTL tag is still in the group
\* mapping, with its one member, and still referenced by a kerning pair.
C12_DissolveRemovesSingleGroups ==
    (Normalized /\ option_dissolve) =>
        /\ \A g \in DOMAIN kp.groups :
              ~(Len(kp.groups[g]) = 1 /\ ~isRTLGroup(g))
        /\ \A p \in DOMAIN kp.kerning \cup DOMAIN kp.predefined_exceptions :
              \A item \in {p[1], p[2]} :
                  isGroup(item) => item \in DOMAIN kp.groups
        /\ \A g \in KeptSingleGroups :
              /\ remap_group_name(g) \in DOMAIN kp.groups
              /\ kp.groups[remap_group_name(g)] = in_groups[g]
              /\ pc = "normalized" =>
                    \E p \in DOMAIN kp.kerning :
                        remap_group_name(g) \in {p[1], p[2]}

\* C12 witness: the dissolve option on, normalization done, and the input
\* has a used single-member group without RTL tag and one with.
C12_Witness ==
    /\ pc = "normalized" /\ option_dissolve
    /\ DissolvableGroups # {}
    /\ KeptSingleGroups # {}

\* the item of an input pair after dissolving and remapping
NormalizedItem(item) ==
    remap_group_name(
        IF option_dissolve /\ item \in DissolvableGroups
        THEN in_groups[item][1] ELSE item)

\* C13: with the dissolve option on, every pair of the sanitized input is
\* in the normalized kerning with each dissolved single-member group
\* replaced by its sole glyph, and has the value of the input pair there;
\* so has every pair that references no dissolved group.
C13_DissolveKeepsValues ==
    (pc = "normalized" /\ option_dissolve) =>
        \A p \in DOMAIN sanitize_kerning(in_groups, in_kerning) :
            LET q == <<NormalizedItem(p[1]), NormalizedItem(p[2])>>
            IN  q \in DOMAIN kp.kerning /\ kp.kerning[q] = in_kerning[p]

\* C14: _remap_group_name is idempotent: for every group name made of
\* storage prefixes, display prefixes and a base name, in any mix, remapping
\* what a first remapping returned returns it unchanged.
C14_RemapIdempotent ==
    (pc = "remap" /\ Len(call.returned) = 2) =>
        call.returned[2] = call.returned[1]

\* every item of the pair that is a group name is a key of groups
GroupsPresent(groups, p) ==
    \A item \in {p[1], p[2]} : isGroup(item) => item \in DOMAIN groups

\* C15: sanitize_kerning returns (it has no raising path on dicts of pairs
\* of names) exactly the input pairs whose group-named items are all keys
\* of groups: every returned pair is an input pair with such items and its
\* input value, and every input pair with such items is returned.
C15_SanitizeKeepsExactlyDefinedGroups ==
    (pc = "sanitize" /\ call.returned # None) =>
        LET sanitized_kerning == call.returned[1]
        IN  /\ \A p \in DOMAIN sanitized_kerning :
                  /\ p \in DOMAIN call.kerning
                  /\ sanitized_kerning[p] = call.kerning[p]
                  /\ GroupsPresent(call.groups, p)
            /\ \A p \in DOMAIN call.kerning :
                  GroupsPresent(call.groups, p) =>
                      p \in DOMAIN sanitized_kerning

\* C15 witness: a call that returned, dropping a pair whose right item
\* alone is an absent group and keeping a pair with a group that is present.
C15_Witness ==
    /\ pc = "sanitize" /\ call.returned # None
    /\ \E p \in DOMAIN call.kerning \ DOMAIN call.returned[1] :
          ~isGroup(p[1]) /\ isGroup(p[2])
    /\ \E p \in DOMAIN call.returned[1] : isGroup(p[1]) \/ isGroup(p[2])

\* C17: a glyph-group pair whose left glyph is a member of a group used on
\* the left side is in the glyph-group-exceptions bucket (LTR or RTL) with
\* its own value, 0 included, is recorded as processed, and is neither in
\* a glyph-group class bucket nor recorded as unprocessed.
C17_GroupedGlyphToGroupIsException ==
    Classified =>
        \A p \in glyph_2_group(kp) :
            p[1] \in kp.grouped_left =>
                /\ InCategoryWithOwnValue(p, "glyph_group_exceptions",
                                          "rtl_glyph_group_exceptions")
                /\ p \in Range(kp.pairs_processed)
                /\ ~InCategory(p, "glyph_group", "rtl_glyph_group")
                /\ p \notin Range(kp.pairs_unprocessed)

\* C17 witness: a classified input with a glyph-group pair of value 0 whose
\* left glyph is left-grouped.
C17_Witness ==
    /\ Classified
    /\ \E p \in glyph_2_group(kp) :
          p[1] \in kp.grouped_left /\ kp.kerning[p] = 0

\* C18: when no pair of the kerning references a group, classification
\* ends without an error, and once it has ended every pair left in the
\* kerning (the pairs without ignore or exception tag) is in the plain
\* glyph-glyph bucket, the RTL one if the pair passes the RTL test and the
\* LTR one otherwise.
C18_NoGroupsClassifiesPlain ==
    UsedInputGroups = {} =>
        /\ pc # "error"
        /\ Classified =>
              \A p \in DOMAIN kp.kerning :
                  IF isRTL(kp.reference_groups, p)
                  THEN p \in DOMAIN kp.rtl_glyph_glyph
                  ELSE p \in DOMAIN kp.glyph_glyph

\* how often the pair is recorded in pairs_processed and pairs_unprocessed
TimesRecorded(p) ==
    LET recorded == kp.pairs_processed \o kp.pairs_unprocessed
    IN  Cardinality({i \in 1..Len(recorded) : recorded[i] = p})

\* C19: after classification every pair of the kerning is recorded exactly
\* once, in pairs_processed or in pairs_unprocessed, so the number of pairs
\* of the kerning is the number of processed plus the number of unprocessed
\* pairs, as _sanityCheck tests.
C19_EveryPairRecordedOnce ==
    Classified =>
        /\ \A p \in DOMAIN kp.kerning : TimesRecorded(p) = 1
        /\ Cardinality(DOMAIN kp.kerning) =
               Len(kp.pairs_processed) + Len(kp.pairs_unprocessed)
        /\ sanity # "mismatch"

\* the pairs of the sanitized input that normalization turns into pair q
InputPairsOf(q) ==
    {p \in DOMAIN sanitize_kerning(in_groups, in_kerning) :
        <<NormalizedItem(p[1]), NormalizedItem(p[2])>> = q}

\* the pair is in the bucket with the value of an input pair it comes from
InBucketWithInputValue(q, bucket) ==
    /\ q \in DOMAIN kp[bucket]
    /\ \E p \in InputPairsOf(q) : kp[bucket][q] = in_kerning[p]

\* C20: every pair of the normalized kerning with the exception marker in an
\* item and no ignore marker in its left item is removed from the kerning
\* and is in the predefined-exceptions bucket with its value unchanged: the
\* RTL bucket if the pair passes the RTL test, the LTR bucket otherwise.
C20_PredefinedExceptionsByDirection ==
    Classified =>
        \A p \in DOMAIN sanitize_kerning(in_groups, in_kerning) :
            LET q == <<NormalizedItem(p[1]), NormalizedItem(p[2])>>
            IN  ( /\ Contains(q[1], tag_exception)
                     \/ Contains(q[2], tag_exception)
                  /\ ~Contains(q[1], tag_ignore) ) =>
                    /\ q \notin DOMAIN kp.kerning
                    /\ IF isRTL(kp.reference_groups, q)
                       THEN /\ InBucketWithInputValue(q, "rtl_predefined_exceptions")
                            /\ q \notin DOMAIN kp.predefined_exceptions
                       ELSE /\ InBucketWithInputValue(q, "predefined_exceptions")
                            /\ q \notin DOMAIN kp.rtl_predefined_exceptions

\* C22: every entry of every category bucket gives its pair the value the
\* pair has in the kerning mapping (for a predefined exception, which is
\* removed from the mapping, the value it had there); so a glyph-group pair
\* (g, G) is stored with its own value also when an exact pair (g, m) with
\* m in G has another value, and is unprocessed exactly if its own value
\* is 0.
C22_BucketsHoldOwnValues ==
    Classified =>
        /\ \A b \in Buckets : \A p \in DOMAIN kp[b] :
              IF p \in DOMAIN kp.kerning
              THEN kp[b][p] = kp.kerning[p]
              ELSE InBucketWithInputValue(p, b)
        /\ \A p \in glyph_2_group(kp) :
              p[1] \notin kp.grouped_left =>
                  (p \in Range(kp.pairs_unprocessed) <=> kp.kerning[p] = 0)

\* C23: for every glyph-group pair (g, G) of the classified kerning and
\* every member m of G for which (g, m) is a glyph-glyph pair of it, (g, m)
\* is in a glyph-glyph-exceptions bucket (LTR or RTL) and in no plain
\* glyph-glyph bucket, whether g is left-grouped or not.
C23_MemberPairsAreExceptions ==
    Classified =>
        \A p \in glyph_2_group(kp) : \A m \in Range(kp.groups[p[2]]) :
            <<p[1], m>> \in glyph_2_glyph(kp) =>
                /\ InCategory(<<p[1], m>>, "glyph_glyph_exceptions",
                              "rtl_glyph_glyph_exceptions")
                /\ ~InCategory(<<p[1], m>>, "glyph_glyph", "rtl_glyph_glyph")

\* C23 witness: a classified input with a glyph-group pair (g, G) that is a
\* glyph-group exception, g being left-grouped, and an exact pair (g, m)
\* with m in G.
C23_Witness ==
    /\ Classified
    /\ \E p \in glyph_2_group(kp) :
          /\ p[1] \in kp.grouped_left
          /\ InCategory(p, "glyph_group_exceptions",
                        "rtl_glyph_group_exceptions")
          /\ \E m \in Range(kp.groups[p[2]]) :
                <<p[1], m>> \in glyph_2_glyph(kp)

-----------------------------------------------------------------------------
(* Properties of the partitioner.                                          *)

Emitted == pc = "emitted"

\* the subtables that have the pair as a key
SubtablesWith(p) ==
    {n \in 1..Len(mst.subtables) : p \in DOMAIN mst.subtables[n]}

\* every pair of the bucket is in exactly one subtable, and no subtable
\* has a pair that is not in the bucket
PartitionsBucketPairs ==
    /\ \A p \in DOMAIN mst.kernDict : Cardinality(SubtablesWith(p)) = 1
    /\ \A n \in 1..Len(mst.subtables) :
          DOMAIN mst.subtables[n] \subseteq DOMAIN mst.kernDict

\* C3 as claimed: the subtables partition the bucket exactly, every pair
\* with the value it has in the bucket.
C3_SubtablesReproduceBucket ==
    Emitted =>
        /\ PartitionsBucketPairs
        /\ \A n \in 1..Len(mst.subtables) : \A p \in DOMAIN mst.subtables[n] :
              mst.subtables[n][p] = Some(mst.kernDict[p])

\* C3 as amended: the subtables partition the pairs of the bucket exactly
\* (every pair of the bucket in exactly one subtable, no other pair in any
\* subtable), and every pair that is a key of the kerning mapping has the
\* value of the kerning mapping, which is its value in the bucket only
\* where the two agree.
C3_SubtablesPartitionBucketPairs ==
    Emitted =>
        /\ PartitionsBucketPairs
        /\ \A n \in 1..Len(mst.subtables) : \A p \in DOMAIN mst.subtables[n] :
              p \in DOMAIN mst.kerning =>
                  mst.subtables[n][p] = Some(mst.kerning[p])

\* C3 witness: a bucket split into two subtables with pairs, one of them
\* with another value in the kerning mapping than in the bucket.
C3_Witness ==
    /\ Emitted
    /\ \E n1, n2 \in 1..Len(mst.subtables) :
          /\ n1 # n2
          /\ DOMAIN mst.subtables[n1] # {}
          /\ DOMAIN mst.subtables[n2] # {}
    /\ \E p \in DOMAIN mst.kernDict \cap DOMAIN mst.kerning :
          mst.kerning[p] # mst.kernDict[p]

\* the estimate of lines 736-741 over the pairs of the left items
CostOf(items) ==
    estimate(
        LET pairs == {p \in DOMAIN mst.kernDict : p[1] \in items}
        IN  [mst EXCEPT
               !.groupedGlyphsLeft =
                   UNION {Range(Get(mst.groups, p[1], <<p[1]>>)) : p \in pairs},
               !.groupedGlyphsRight =
                   UNION {Range(Get(mst.groups, p[2], <<p[2]>>)) : p \in pairs},
               !.usedGroupsLeft = {p[1] : p \in pairs},
               !.usedGroupsRight = {p[2] : p \in pairs}])

\* C4: every emitted subtable has an estimated cost, over the left items it
\* contains, below maxSize, except a subtable of a single left item whose
\* own cost is maxSize or more.
C4_SubtablesUnderMaxSize ==
    pc \in {"build", "emitted"} =>
        \A n \in 1..Len(mst.measuredSubtables) :
            LET items == Range(mst.measuredSubtables[n])
            IN  \/ CostOf(items) < mst.maxSubtableSize
                \/ Cardinality(items) = 1

\* C5: the partitioner never emits an empty subtable.
C5_NoEmptySubtable ==
    Emitted =>
        \A n \in 1..Len(mst.subtables) : DOMAIN mst.subtables[n] # {}

\* C16: when a pair of the bucket is no key of the kerning mapping, the
\* partitioner ends in an error and emits no subtables: no emitted subtable
\* gives a pair the default None of a failed lookup.
C16_MissingPairFailsLoudly ==
    Emitted =>
        /\ DOMAIN mst.kernDict \subseteq DOMAIN mst.kerning
        /\ \A n \in 1..Len(mst.subtables) : \A p \in DOMAIN mst.subtables[n] :
              mst.subtables[n][p] # None

\* the four accumulators holding exactly the contribution of one left item
OwnContribution(item) ==
    absorbed([mst EXCEPT !.groupedGlyphsLeft = {}, !.groupedGlyphsRight = {},
                         !.usedGroupsLeft = {}, !.usedGroupsRight = {}],
             item)

\* C21: when a left item whose estimate is maxSize or more has opened a new
\* subtable (the current subtable holds that item alone and a subtable has
\* been closed before it), the four accumulators hold exactly that item's
\* own contribution, so that the estimate of the next item counts it.
C21_AccumulatorsResetToOpeningItem ==
    (pc = "measure" /\ Len(mst.measuredSubtables) > 0
                    /\ Len(mst.subtable) = 1) =>
        LET own == OwnContribution(mst.subtable[1])
        IN  /\ mst.groupedGlyphsLeft = own.groupedGlyphsLeft
            /\ mst.groupedGlyphsRight = own.groupedGlyphsRight
            /\ mst.usedGroupsLeft = own.usedGroupsLeft
            /\ mst.usedGroupsRight = own.usedGroupsRight

=============================================================================
